---- MODULE Spec2Model ----
(***************************************************************************)
(* Metric accumulators of FastPoseCNN/lib/metrics.py.                      *)
(*                                                                         *)
(* Six pytorch-lightning metrics: three threshold accumulators             *)
(* (DegreeErrorMeanAP, Iou3dAP, OffsetAP) holding the counters correct and *)
(* total, and three running-mean accumulators (DegreeError, Iou3dAccuracy, *)
(* OffsetError) holding one register (error / accuracy).                   *)
(*                                                                         *)
(* Tensor values are modelled as exact rationals <<n, d>> in lowest terms; *)
(* <<0, 0>> is the float NaN (0/0).  A class slot of gt_pred_matches is    *)
(* modelled by the presence of the field the metric looks up and by the    *)
(* score sequence the geometric scorer of gtf returns for it.              *)
(***************************************************************************)
EXTENDS Integers, Sequences, FiniteSets, TLC

\* ------------------------------------------------------------------------
\* Bounds of the model
MaxSlots == 2     \* class slots per batch (len(gt_pred_matches))
MaxInst == 3      \* matched instances per batch, over all its class slots
MaxUpdates == 2   \* update calls per behaviour
MaxLongRun == 26  \* update calls per behaviour of a long run on one score
MaxSharedSlots == 1   \* class slots per batch of a caller of a shared instance
MaxSharedInst == 2    \* instances per batch of a caller of a shared instance

\* ------------------------------------------------------------------------
\* Exact rational arithmetic standing for torch float arithmetic

RECURSIVE GCD(_, _)
GCD(a, b) == IF b = 0 THEN a ELSE GCD(b, a % b)

RatNorm(n, d) ==
    IF d = 0 THEN <<(IF n > 0 THEN 1 ELSE 0), 0>>
    ELSE LET g == GCD(n, d) IN <<n \div g, d \div g>>

NaN == <<0, 0>>
IsNaN(a) == a[2] = 0 /\ a[1] = 0
RatInt(n) == <<n, 1>>
RatAdd(a, b) == RatNorm(a[1] * b[2] + b[1] * a[2], a[2] * b[2])
RatDivInt(a, k) == RatNorm(a[1], a[2] * k)
RatMulInt(a, k) == RatNorm(a[1] * k, a[2])
RatLess(a, b) == a[2] # 0 /\ b[2] # 0 /\ a[1] * b[2] < b[1] * a[2]
RatLeq(a, b) == a[2] # 0 /\ b[2] # 0 /\ a[1] * b[2] <= b[1] * a[2]

\* Rounding of a sum to float32 (24-bit significand, round to nearest, ties
\* to even).  It is applied to binary fractions, which is what float32 values
\* are; a value that is no binary fraction (a mean the model keeps exact) is
\* left as it is.
RECURSIVE IsPowerOfTwo(_)
IsPowerOfTwo(d) == d = 1 \/ (d > 1 /\ d % 2 = 0 /\ IsPowerOfTwo(d \div 2))

Significand == 2^24

RECURSIVE UlpOf(_)
UlpOf(n) == IF n < Significand THEN 1 ELSE 2 * UlpOf(n \div 2)

Float32(x) ==
    IF x[2] = 0 \/ ~IsPowerOfTwo(x[2]) \/ x[1] < Significand THEN x
    ELSE LET p == UlpOf(x[1])
             q == x[1] \div p
             r == x[1] % p
             up == (2 * r > p) \/ (2 * r = p /\ q % 2 = 1)
         IN RatNorm((IF up THEN q + 1 ELSE q) * p, x[2])

RECURSIVE RatSum(_)
RatSum(s) == IF s = <<>> THEN RatInt(0) ELSE RatAdd(Head(s), RatSum(Tail(s)))

\* torch.mean of a 1-d tensor: NaN on an empty tensor
TorchMean(s) == RatDivInt(RatSum(s), Len(s))

\* torch.cat of a list of 1-d tensors
RECURSIVE TorchCat(_)
TorchCat(l) == IF l = <<>> THEN <<>> ELSE Head(l) \o TorchCat(Tail(l))

\* ------------------------------------------------------------------------
\* The six metric classes

ThresholdKinds == {"DegreeErrorMeanAP", "Iou3dAP", "OffsetAP"}
ConcatMeanKinds == {"DegreeError", "Iou3dAccuracy"}
MeanKinds == ConcatMeanKinds \cup {"OffsetError"}
Kinds == ThresholdKinds \cup MeanKinds

\* Scores the geometric scorers return in the model: angular distances in
\* degrees, 3D IoUs in [0,1], translation offsets.
DegreeScores == {<<3, 1>>, <<9, 2>>, <<7, 1>>}
IouScores == {<<1, 4>>, <<1, 2>>, <<3, 4>>}
OffsetScores == {<<1, 1>>, <<5, 1>>, <<10, 1>>}
DegreeErrors == {<<0, 1>>, <<10, 1>>, <<20, 1>>}
IouFractions == {<<0, 1>>, <<1, 10>>, <<1, 5>>, <<1, 1>>}
OffsetErrors == {<<0, 1>>, <<10, 1>>, <<20, 1>>}

\* Thresholds given to the constructors; NoThreshold for the
\* running-mean metrics, which take none.
NoThreshold == <<0, 0>>
Thresholds(k) ==
    CASE k = "DegreeErrorMeanAP" -> {<<9, 2>>, <<5, 1>>}
      [] k = "Iou3dAP" -> {<<1, 4>>, <<1, 2>>}
      [] k = "OffsetAP" -> {<<5, 1>>, <<10, 1>>}
      [] OTHER -> {NoThreshold}

\* ------------------------------------------------------------------------
\* Batches (gt_pred_matches): a list with one dict per class.  has_field is
\* whether the dict has the key the metric reads ('quaternion' or 'RT');
\* scores is what the scorer returns for the slot's matched pairs.

NoInstance == [has_field |-> FALSE, scores |-> <<>>]

SeqsOf(S, lo, hi) == UNION {[1..n -> S] : n \in lo..hi}

SlotsOver(S) ==
    {NoInstance} \cup {[has_field |-> TRUE, scores |-> s] : s \in SeqsOf(S, 1, MaxInst)}

RECURSIVE NumInstances(_)
NumInstances(b) ==
    IF b = <<>> THEN 0 ELSE Len(Head(b).scores) + NumInstances(Tail(b))

BatchesOver(S) ==
    {b \in SeqsOf(SlotsOver(S), 0, MaxSlots) : NumInstances(b) <= MaxInst}

DegreeBatches == BatchesOver(DegreeScores)
IouBatches == BatchesOver(IouScores)
OffsetBatches == BatchesOver(OffsetScores)
DegreeErrorBatches == BatchesOver(DegreeErrors)
IouFractionBatches == BatchesOver(IouFractions)
OffsetErrorBatches == BatchesOver(OffsetErrors)

Batches(k) ==
    CASE k = "DegreeErrorMeanAP" -> DegreeBatches
      [] k = "Iou3dAP" -> IouBatches
      [] k = "OffsetAP" -> OffsetBatches
      [] k = "DegreeError" -> DegreeErrorBatches
      [] k = "Iou3dAccuracy" -> IouFractionBatches
      [] k = "OffsetError" -> OffsetErrorBatches

\* ------------------------------------------------------------------------
\* State

VARIABLES
    kind,             \* the metric class of the instance
    threshold,        \* self.threshold (threshold accumulators)
    correct,          \* state 'correct' (threshold accumulators)
    total,            \* state 'total' (threshold accumulators)
    error,            \* state 'error' (DegreeError, OffsetError)
    accuracy,         \* state 'accuracy' (Iou3dAccuracy)
    pc,               \* "idle", or the position inside a running update call
    gt_pred_matches,  \* argument of the running update call
    class_id,         \* loop variable of update (0-based, as range(len(..)))
    all_scores,       \* local list all_degree_distances / all_ious_3d
    ret,              \* <<v>>: the last call returned v; <<>>: it returned None
    raised,           \* the last call ended by raising
    lastCall,         \* "init", "update", "compute" or "reset"
    nupd,             \* number of update calls made so far
    old,              \* the state fields at entry of the running update call
    seen,             \* instances / passing instances fed since the last reset
    workerA,          \* counters of worker A's own instance (distributed run)
    workerB,          \* counters of worker B's own instance
    single,           \* counters of one instance fed A's batches, then B's
    turn,             \* the worker whose batches are being processed
    reduced,          \* <<state>> after the dist_reduce_fx sync, else <<>>
    fresh,            \* the fields of a new instance fed the updates made
                      \* since the last reset, and whether some reset found
                      \* fields off their defaults
    blended,          \* the largest batch mean blended into the register
    serialized,       \* the callers of a shared instance hold a mutex
    mutex,            \* the caller holding the mutex, or "free"
    callers,          \* per caller of a shared instance: its update call
    budget            \* update calls the behaviour may make

vars == <<kind, threshold, correct, total, error, accuracy, pc, gt_pred_matches,
          class_id, all_scores, ret, raised, lastCall, nupd, old, seen,
          workerA, workerB, single, turn, reduced, fresh, blended,
          serialized, mutex, callers, budget>>

shared == <<serialized, mutex, callers>>

workers == <<workerA, workerB, single, turn, reduced>>

params == <<kind, threshold, budget>>
fields == <<correct, total, error, accuracy>>
locals == <<gt_pred_matches, class_id, all_scores>>

Snapshot == [correct |-> correct, total |-> total, error |-> error, accuracy |-> accuracy]
NoSnapshot == [correct |-> 0, total |-> 0, error |-> RatInt(0), accuracy |-> RatInt(0)]
NoneSeen == [total |-> 0, correct |-> 0]
NoCounts == [correct |-> 0, total |-> 0]
Callers == {"caller1", "caller2"}
NotCalling == [pc |-> "start", gt_pred_matches |-> <<>>, class_id |-> 0, rhs |-> 0]
RatMax(a, b) == IF RatLess(a, b) THEN b ELSE a

\* ------------------------------------------------------------------------
\* Pieces of the update bodies

\* the skip test left out
SkippedNever(slot) == FALSE

\* "if 'quaternion' not in gt_pred_matches[class_id].keys(): continue"
\* (and the same test on 'RT')
Skipped(slot) == ~slot.has_field

\* "degree_distance < self.threshold"
DegreePass(score, thr) == RatLess(score, thr)
\* the IoU test with >= in place of >
IouPassInclusive(score, thr) == RatLeq(thr, score)
\* "ious_3d > self.threshold"
IouPass(score, thr) == RatLess(thr, score)
\* "offset_errors < self.threshold"
OffsetPass(score, thr) == RatLess(score, thr)

Pass(k, score, thr) ==
    CASE k = "DegreeErrorMeanAP" -> DegreePass(score, thr)
      [] k = "Iou3dAP" -> IouPass(score, thr)
      [] k = "OffsetAP" -> OffsetPass(score, thr)

\* torch.sum(thresh.int()) for the boolean tensor of a slot
NumPassing(k, thr, scores) ==
    Cardinality({i \in 1..Len(scores) : Pass(k, scores[i], thr)})

\* CountSlot with correct overwritten instead of accumulated
CountSlotOverwrite(k, thr, c, t, scores) ==
    <<NumPassing(k, thr, scores), t + Len(scores)>>

\* CountSlot with total counting class slots instead of instances
CountSlotPerSlot(k, thr, c, t, scores) ==
    <<c + NumPassing(k, thr, scores), t + 1>>

\* "self.correct = self.correct + torch.sum(thresh.int())
\*  self.total = self.total + thresh.shape[0]"
CountSlot(k, thr, c, t, scores) ==
    <<c + NumPassing(k, thr, scores), t + Len(scores)>>

\* "ious_3d = gtf.get_3d_ious(...) * 100" in Iou3dAccuracy; the other
\* running-mean metrics keep the scorer's values
RECURSIVE Times100(_)
Times100(s) ==
    IF s = <<>> THEN <<>> ELSE <<RatMulInt(Head(s), 100)>> \o Times100(Tail(s))

SlotScores(k, scores) == IF k = "Iou3dAccuracy" THEN Times100(scores) ELSE scores

\* the blend without the division by 2
BlendSum(register, this_round) == RatAdd(register, this_round)

\* "self.error = (self.error + this_round_error) / 2"
Blend(register, this_round) == RatDivInt(Float32(RatAdd(register, this_round)), 2)

\* ------------------------------------------------------------------------
\* Construction: add_state defaults are torch.tensor(0)

Constructed ==
    /\ kind \in Kinds
    /\ threshold \in Thresholds(kind)
    /\ correct = 0
    /\ total = 0
    /\ error = RatInt(0)
    /\ accuracy = RatInt(0)
    /\ pc = "idle"
    /\ gt_pred_matches = <<>>
    /\ class_id = 0
    /\ all_scores = <<>>
    /\ ret = <<>>
    /\ raised = FALSE
    /\ lastCall = "init"
    /\ nupd = 0
    /\ old = NoSnapshot
    /\ seen = NoneSeen
    /\ workerA = NoCounts
    /\ workerB = NoCounts
    /\ single = NoCounts
    /\ turn = "A"
    /\ reduced = <<>>
    /\ fresh = [fields |-> NoSnapshot, afterReset |-> FALSE]
    /\ blended = RatInt(0)
    /\ mutex = "free"
    /\ callers = [c \in Callers |-> NotCalling]

Init ==
    /\ Constructed
    /\ budget = MaxUpdates
    /\ serialized = FALSE

\* ------------------------------------------------------------------------
\* update(gt_pred_matches)

\* What a batch feeds a threshold accumulator: its instances, and those whose
\* score passes the threshold, over the present slots taken as one sequence.
RECURSIVE PresentScores(_)
PresentScores(b) ==
    IF b = <<>> THEN <<>>
    ELSE (IF Head(b).has_field THEN Head(b).scores ELSE <<>>) \o PresentScores(Tail(b))

Fed(k, thr, b) ==
    IF k \in ThresholdKinds
    THEN [total |-> Len(PresentScores(b)),
          correct |-> NumPassing(k, thr, PresentScores(b))]
    ELSE NoneSeen

\* the scorer call without its failure
ScorerNeverRaises(slot) == FALSE

\* "gtf.torch_quat_distance(q0, q1)", "gtf.get_3d_ious(...)",
\* "gtf.from_RTs_get_T_offset_errors(...)", and for Iou3dAP / Iou3dAccuracy the
\* lookup of 'scales': the call raises on a slot whose tensors it cannot
\* score; such a slot is marked by the field raises
ScorerRaises(slot) == "raises" \in DOMAIN slot

\* update of a threshold accumulator as a function of the counters and the
\* batch: the loop of UpdateSlot run to its end, or to the slot that raises
RECURSIVE ThresholdUpdate(_, _, _, _, _)
ThresholdUpdate(k, thr, c, t, b) ==
    IF b = <<>> THEN <<c, t>>
    ELSE IF Skipped(Head(b)) THEN ThresholdUpdate(k, thr, c, t, Tail(b))
    ELSE IF ScorerRaises(Head(b)) THEN <<c, t>>
    ELSE LET st == CountSlot(k, thr, c, t, Head(b).scores)
         IN ThresholdUpdate(k, thr, st[1], st[2], Tail(b))

\* OffsetError's loop as a function of the register and the batch
RECURSIVE OffsetErrorUpdate(_, _)
OffsetErrorUpdate(e, b) ==
    IF b = <<>> THEN e
    ELSE IF Skipped(Head(b)) THEN OffsetErrorUpdate(e, Tail(b))
    ELSE IF ScorerRaises(Head(b)) THEN e
    ELSE OffsetErrorUpdate(Blend(e, TorchMean(Head(b).scores)), Tail(b))

\* DegreeError's and Iou3dAccuracy's update as a function of the register:
\* nothing is written when a scorer call or torch.cat raises
ConcatMeanUpdate(k, r, b) ==
    IF (\E i \in 1..Len(b) : ScorerRaises(b[i])) \/ PresentScores(b) = <<>>
    THEN r
    ELSE Blend(r, TorchMean(SlotScores(k, PresentScores(b))))

\* update as a function of the state fields f and the batch
FieldsUpdate(k, thr, f, b) ==
    CASE k \in ThresholdKinds ->
            LET st == ThresholdUpdate(k, thr, f.correct, f.total, b)
            IN [f EXCEPT !.correct = st[1], !.total = st[2]]
      [] k = "DegreeError" -> [f EXCEPT !.error = ConcatMeanUpdate(k, f.error, b)]
      [] k = "Iou3dAccuracy" -> [f EXCEPT !.accuracy = ConcatMeanUpdate(k, f.accuracy, b)]
      [] k = "OffsetError" -> [f EXCEPT !.error = OffsetErrorUpdate(f.error, b)]

\* the call is made: the argument is bound and the loop starts
UpdateCall(b) ==
    /\ pc = "idle"
    /\ nupd < budget
    /\ pc' = "loop"
    /\ gt_pred_matches' = b
    /\ class_id' = 0
    /\ all_scores' = <<>>
    /\ ret' = <<>>
    /\ raised' = FALSE
    /\ lastCall' = "update"
    /\ nupd' = nupd + 1
    /\ old' = Snapshot
    /\ seen' = [total |-> seen.total + Fed(kind, threshold, b).total,
                correct |-> seen.correct + Fed(kind, threshold, b).correct]
    /\ fresh' = [fresh EXCEPT !.fields = FieldsUpdate(kind, threshold, fresh.fields, b)]
    /\ UNCHANGED <<params, fields, workers, blended, shared>>

\* one iteration of "for class_id in range(len(gt_pred_matches))".  Past
\* the skip test the slot's field is looked up, which raises KeyError when
\* the dict lacks it; the exception ends the call.
UpdateSlot ==
    /\ pc = "loop"
    /\ class_id < Len(gt_pred_matches)
    /\ LET slot == gt_pred_matches[class_id + 1] IN
       IF Skipped(slot)
       THEN /\ class_id' = class_id + 1
            /\ UNCHANGED <<fields, all_scores, pc, raised, blended>>
       ELSE IF ~slot.has_field \/ ScorerRaises(slot)
       THEN /\ raised' = TRUE
            /\ pc' = "done"
            /\ UNCHANGED <<fields, all_scores, class_id, blended>>
       ELSE /\ class_id' = class_id + 1
            /\ UNCHANGED <<pc, raised>>
            /\ CASE kind \in ThresholdKinds ->
                  /\ correct' = CountSlot(kind, threshold, correct, total, slot.scores)[1]
                  /\ total' = CountSlot(kind, threshold, correct, total, slot.scores)[2]
                  /\ UNCHANGED <<error, accuracy, all_scores, blended>>
              [] kind \in ConcatMeanKinds ->
                  /\ all_scores' = Append(all_scores, SlotScores(kind, slot.scores))
                  /\ UNCHANGED <<fields, blended>>
              [] kind = "OffsetError" ->
                  /\ error' = Blend(error, TorchMean(slot.scores))
                  /\ blended' = RatMax(blended, TorchMean(slot.scores))
                  /\ UNCHANGED <<correct, total, accuracy, all_scores>>
    /\ UNCHANGED <<params, gt_pred_matches, ret, lastCall, nupd, old, seen, workers,
                   fresh, shared>>

\* after the loop: DegreeError and Iou3dAccuracy take the mean of the
\* concatenated scores and blend it in (torch.cat raises on an empty list);
\* the other four metrics have nothing left to do
UpdateFinish ==
    /\ pc = "loop"
    /\ class_id = Len(gt_pred_matches)
    /\ IF kind \in ConcatMeanKinds
       THEN IF all_scores = <<>>
            THEN raised' = TRUE /\ UNCHANGED <<fields, blended>>
            ELSE /\ raised' = FALSE
                 /\ blended' = RatMax(blended, TorchMean(TorchCat(all_scores)))
                 /\ IF kind = "DegreeError"
                    THEN /\ error' = Blend(error, TorchMean(TorchCat(all_scores)))
                         /\ UNCHANGED <<correct, total, accuracy>>
                    ELSE /\ accuracy' = Blend(accuracy, TorchMean(TorchCat(all_scores)))
                         /\ UNCHANGED <<correct, total, error>>
       ELSE UNCHANGED <<fields, raised, blended>>
    /\ pc' = "done"
    /\ UNCHANGED <<params, locals, ret, lastCall, nupd, old, seen, workers, fresh, shared>>

\* the call returns (or the exception leaves it); its frame is dropped
UpdateReturn ==
    /\ pc = "done"
    /\ pc' = "idle"
    /\ gt_pred_matches' = <<>>
    /\ class_id' = 0
    /\ all_scores' = <<>>
    /\ old' = NoSnapshot
    /\ UNCHANGED <<params, fields, ret, raised, lastCall, nupd, seen, workers,
                   fresh, blended, shared>>

\* ------------------------------------------------------------------------
\* compute()

\* the ratio with a guard giving 0 when total is 0
ThresholdValueOrZero(c, t) ==
    IF t = 0 THEN RatInt(0) ELSE RatMulInt(RatNorm(c, t), 100)

\* the ratio without the scaling to a percentage
ThresholdFraction(c, t) == RatNorm(c, t)

\* "(self.correct.float() / self.total.float()) * 100"
ThresholdValue(c, t) == RatMulInt(RatNorm(c, t), 100)

ComputeValue ==
    CASE kind \in ThresholdKinds -> ThresholdValue(correct, total)
      [] kind = "Iou3dAccuracy" -> accuracy
      [] OTHER -> error

\* a compute that also clears the state it reported
ComputeAndReset ==
    /\ pc = "idle"
    /\ ret' = <<ComputeValue>>
    /\ raised' = FALSE
    /\ lastCall' = "compute"
    /\ correct' = 0
    /\ total' = 0
    /\ error' = RatInt(0)
    /\ accuracy' = RatInt(0)
    /\ UNCHANGED <<params, pc, locals, nupd, old, seen, workers, fresh, blended, shared>>

Compute ==
    /\ pc = "idle"
    /\ ret' = <<ComputeValue>>
    /\ raised' = FALSE
    /\ lastCall' = "compute"
    /\ UNCHANGED <<params, fields, pc, locals, nupd, old, seen, workers,
                   fresh, blended, shared>>

\* ------------------------------------------------------------------------
\* reset(): every state goes back to the default given to add_state

\* a reset that only clears 'correct'
ResetCorrectOnly ==
    /\ pc = "idle"
    /\ correct' = 0
    /\ ret' = <<>>
    /\ raised' = FALSE
    /\ lastCall' = "reset"
    /\ seen' = NoneSeen
    /\ fresh' = [fields |-> NoSnapshot,
                 afterReset |-> (fresh.afterReset \/ Snapshot # NoSnapshot)]
    /\ blended' = RatInt(0)
    /\ UNCHANGED <<params, total, error, accuracy, pc, locals, nupd, old, workers, shared>>

Reset ==
    /\ pc = "idle"
    /\ correct' = 0
    /\ total' = 0
    /\ error' = RatInt(0)
    /\ accuracy' = RatInt(0)
    /\ ret' = <<>>
    /\ raised' = FALSE
    /\ lastCall' = "reset"
    /\ seen' = NoneSeen
    /\ fresh' = [fields |-> NoSnapshot,
                 afterReset |-> (fresh.afterReset \/ Snapshot # NoSnapshot)]
    /\ blended' = RatInt(0)
    /\ UNCHANGED <<params, pc, locals, nupd, old, workers, shared>>

\* ------------------------------------------------------------------------
Next ==
    \/ (pc = "idle" /\ nupd < budget /\ \E b \in Batches(kind) : UpdateCall(b))
    \/ UpdateSlot
    \/ UpdateFinish
    \/ UpdateReturn
    \/ Compute
    \/ Reset

Spec == Init /\ [][Next]_vars

\* ------------------------------------------------------------------------
\* Long run of a running-mean accumulator on batches whose instances all
\* have the largest score of the model's score set.  The sums and means of
\* such batches are exact in float32, so the register is the float32 value
\* the code holds.

TopScore(k) ==
    CASE k = "DegreeError" -> <<20, 1>>
      [] k = "Iou3dAccuracy" -> <<1, 1>>
      [] k = "OffsetError" -> <<20, 1>>

LongRunBatches(k) == BatchesOver({TopScore(k)})

InitLongRun ==
    /\ Constructed
    /\ kind \in MeanKinds
    /\ budget = MaxLongRun
    /\ serialized = FALSE

NextLongRun ==
    \/ (pc = "idle" /\ nupd < budget /\ \E b \in LongRunBatches(kind) : UpdateCall(b))
    \/ UpdateSlot
    \/ UpdateFinish
    \/ UpdateReturn
    \/ Compute
    \/ Reset

SpecLongRun == InitLongRun /\ [][NextLongRun]_vars

\* ------------------------------------------------------------------------
\* Batches with class slots the scorer cannot score (tensors of unequal
\* length, or a dict with 'RT' but without 'scales'): the scorer call, or the
\* lookup before it, raises.

Unscorable == [has_field |-> TRUE, scores |-> <<>>, raises |-> TRUE]

FaultyBatches(k) ==
    {[i \in 1..Len(b) |-> IF i \in F THEN Unscorable ELSE b[i]] :
         b \in Batches(k), F \in SUBSET (1..MaxSlots)}

NextFaulty ==
    \/ (pc = "idle" /\ nupd < budget /\ \E b \in FaultyBatches(kind) : UpdateCall(b))
    \/ UpdateSlot
    \/ UpdateFinish
    \/ UpdateReturn
    \/ Compute
    \/ Reset

SpecFaulty == Init /\ [][NextFaulty]_vars

\* ------------------------------------------------------------------------
\* One threshold accumulator shared by two callers, each making one update
\* call.  The statements "self.correct = self.correct + ..." and
\* "self.total = self.total + ..." each evaluate their right-hand side and
\* then store it; another caller can run between the two.  With serialized
\* the callers hold a mutex around the whole call.

SharedBatches(k) ==
    {b \in Batches(k) : Len(b) <= MaxSharedSlots /\ NumInstances(b) <= MaxSharedInst}

InitShared ==
    /\ Constructed
    /\ kind \in ThresholdKinds
    /\ budget = MaxUpdates
    /\ serialized \in BOOLEAN

others == <<params, error, accuracy, pc, locals, ret, raised, lastCall, nupd, old, seen,
            workers, fresh, blended, serialized>>

\* caller c calls update(b), taking the mutex first when serialized
CallerCall(c, b) ==
    /\ callers[c].pc = "start"
    /\ serialized => mutex = "free"
    /\ mutex' = IF serialized THEN c ELSE mutex
    /\ callers' = [callers EXCEPT ![c] =
                       [pc |-> "loop", gt_pred_matches |-> b, class_id |-> 0, rhs |-> 0]]
    /\ UNCHANGED <<others, correct, total>>

\* the loop test, the skip test, the scorer call and the evaluation of
\* "self.correct + torch.sum(...)"; after the last slot the call returns
CallerLoop(c) ==
    /\ callers[c].pc = "loop"
    /\ LET me == callers[c]
           b == me.gt_pred_matches
       IN IF me.class_id = Len(b)
          THEN /\ callers' = [callers EXCEPT ![c].pc = "done"]
               /\ mutex' = IF serialized THEN "free" ELSE mutex
          ELSE /\ mutex' = mutex
               /\ IF Skipped(b[me.class_id + 1])
                  THEN callers' = [callers EXCEPT ![c].class_id = me.class_id + 1]
                  ELSE callers' = [callers EXCEPT
                           ![c].pc = "write_correct",
                           ![c].rhs = CountSlot(kind, threshold, correct, total,
                                                b[me.class_id + 1].scores)[1]]
    /\ UNCHANGED <<others, correct, total>>

\* the store to self.correct
CallerWriteCorrect(c) ==
    /\ callers[c].pc = "write_correct"
    /\ correct' = callers[c].rhs
    /\ callers' = [callers EXCEPT ![c].pc = "read_total"]
    /\ UNCHANGED <<others, total, mutex>>

\* the evaluation of "self.total + thresh.shape[0]"
CallerReadTotal(c) ==
    /\ callers[c].pc = "read_total"
    /\ LET me == callers[c]
       IN callers' = [callers EXCEPT
              ![c].pc = "write_total",
              ![c].rhs = CountSlot(kind, threshold, correct, total,
                                   me.gt_pred_matches[me.class_id + 1].scores)[2]]
    /\ UNCHANGED <<others, correct, total, mutex>>

\* the store to self.total; the loop goes on with the next slot
CallerWriteTotal(c) ==
    /\ callers[c].pc = "write_total"
    /\ total' = callers[c].rhs
    /\ callers' = [callers EXCEPT ![c].pc = "loop",
                                   ![c].class_id = callers[c].class_id + 1]
    /\ UNCHANGED <<others, correct, mutex>>

NextShared ==
    \/ \E c \in Callers :
           callers[c].pc = "start" /\ \E b \in SharedBatches(kind) : CallerCall(c, b)
    \/ \E c \in Callers : CallerLoop(c)
    \/ \E c \in Callers : CallerWriteCorrect(c)
    \/ \E c \in Callers : CallerReadTotal(c)
    \/ \E c \in Callers : CallerWriteTotal(c)

SpecShared == InitShared /\ [][NextShared]_vars

\* ------------------------------------------------------------------------
\* Distributed run of a threshold accumulator: each worker updates its own
\* instance on its own batches; the sync combines the workers' states with
\* the dist_reduce_fx declared by add_state.  A third instance is fed worker
\* A's batches followed by worker B's, for comparison.

\* dist_reduce_fx with 'mean' in place of 'sum'
ReduceMean(a, b) ==
    [correct |-> (a.correct + b.correct) \div 2, total |-> (a.total + b.total) \div 2]

\* dist_reduce_fx='sum' on both 'correct' and 'total'
Reduce(a, b) ==
    [correct |-> a.correct + b.correct, total |-> a.total + b.total]

UpdatedCounts(w, b) ==
    LET st == ThresholdUpdate(kind, threshold, w.correct, w.total, b)
    IN [correct |-> st[1], total |-> st[2]]

InitReduce ==
    /\ Init
    /\ kind \in ThresholdKinds

WorkerUpdate(b) ==
    /\ nupd < MaxUpdates
    /\ nupd' = nupd + 1
    /\ IF turn = "A"
       THEN workerA' = UpdatedCounts(workerA, b) /\ UNCHANGED workerB
       ELSE workerB' = UpdatedCounts(workerB, b) /\ UNCHANGED workerA
    /\ single' = UpdatedCounts(single, b)
    /\ reduced' = <<>>
    /\ UNCHANGED <<params, fields, pc, locals, ret, raised, lastCall, old, seen, turn,
                   fresh, blended, shared>>

\* worker A's sequence of batches ends; worker B's are processed next
HandOver ==
    /\ turn = "A"
    /\ turn' = "B"
    /\ UNCHANGED <<params, fields, pc, locals, ret, raised, lastCall, nupd, old, seen,
                   workerA, workerB, single, reduced, fresh, blended, shared>>

Sync ==
    /\ reduced' = <<Reduce(workerA, workerB)>>
    /\ UNCHANGED <<params, fields, pc, locals, ret, raised, lastCall, nupd, old, seen,
                   workerA, workerB, single, turn, fresh, blended, shared>>

NextReduce ==
    \/ (nupd < MaxUpdates /\ \E b \in Batches(kind) : WorkerUpdate(b))
    \/ HandOver
    \/ Sync

SpecReduce == InitReduce /\ [][NextReduce]_vars

\* ------------------------------------------------------------------------
\* Properties

Done == pc = "done"
Register == IF kind = "Iou3dAccuracy" THEN accuracy ELSE error
OldRegister == IF kind = "Iou3dAccuracy" THEN old.accuracy ELSE old.error
HasSkipped(b) == \E i \in 1..Len(b) : ~b[i].has_field
HasPresent(b) == \E i \in 1..Len(b) : b[i].has_field

\* C1: a threshold accumulator always has 0 <= correct <= total, whatever
\* update, compute and reset calls were made.
C1_CorrectWithinTotal ==
    kind \in ThresholdKinds => (0 <= correct /\ correct <= total)

C1_Witness ==
    /\ kind \in ThresholdKinds
    /\ lastCall = "compute"
    /\ nupd = 2
    /\ 0 < correct
    /\ correct < total

\* C2: between calls a threshold accumulator's total is the number of
\* instances of the present slots fed since construction or the last reset,
\* correct is the number of those that pass the threshold, and no step other
\* than reset lowers either counter.
C2_CountersAreSums ==
    [][(kind \in ThresholdKinds) =>
          /\ pc' \in {"idle", "done"} =>
                 (total' = seen'.total /\ correct' = seen'.correct)
          /\ lastCall' # "reset" => (total' >= total /\ correct' >= correct)
      ]_vars

C2_Witness ==
    /\ kind \in ThresholdKinds
    /\ Done
    /\ nupd = 2
    /\ old.total > 0
    /\ HasSkipped(gt_pred_matches)
    /\ total > old.total
    /\ correct > old.correct
    /\ total - old.total > correct - old.correct

\* C3: summing two workers' (correct, total) field by field gives the state
\* of one accumulator fed worker A's batches followed by worker B's, and
\* the same compute value.
C3_SumReduction ==
    reduced # <<>> =>
        /\ reduced[1] = single
        /\ ThresholdValue(reduced[1].correct, reduced[1].total) =
               ThresholdValue(single.correct, single.total)

C3_Witness ==
    /\ reduced # <<>>
    /\ workerA.total > 0
    /\ workerB.total > 0
    /\ workerA.correct > 0
    /\ workerB.correct < workerB.total
    /\ workerA # workerB

\* the mean of all scores of the present slots of a batch, as one sequence
BatchMean(k, b) == TorchMean(SlotScores(k, PresentScores(b)))

\* C4: a running-mean accumulator at register 0 fed a batch of mean m1 then
\* reports m1/2, and fed a batch of mean m2 after that holds (m1/2 + m2)/2;
\* 10 then 20 give 5 and 12.5.
C4_BlendExample ==
    (kind \in MeanKinds /\ Done /\ ~raised /\ HasPresent(gt_pred_matches)) =>
        LET m == BatchMean(kind, gt_pred_matches) IN
        /\ OldRegister = RatInt(0) => ComputeValue = RatDivInt(m, 2)
        /\ OldRegister # RatInt(0) =>
               Register = RatDivInt(RatAdd(OldRegister, m), 2)
        /\ (OldRegister = RatInt(0) /\ m = RatInt(10)) => ComputeValue = RatInt(5)
        /\ (OldRegister = RatInt(5) /\ m = RatInt(20)) => Register = <<25, 2>>

\* C5: one update of a running-mean accumulator on a batch with a present
\* slot blends once: register = (register + M) / 2 with M the mean of all
\* the batch's scores as one sequence, however they are split among slots.
C5_OneBlendPerBatch ==
    (kind \in MeanKinds /\ Done /\ HasPresent(gt_pred_matches)) =>
        /\ ~raised
        /\ Register = Blend(OldRegister, BatchMean(kind, gt_pred_matches))

\* C6: in a threshold accumulator's update the slots without the field
\* change nothing and raise nothing: the counters after the call are those
\* of updating with the skipped slots removed, and unchanged when no slot
\* is present.
C6_SkippedSlotsNoEffect ==
    (kind \in ThresholdKinds /\ Done) =>
        /\ ~raised
        /\ <<correct, total>> =
               ThresholdUpdate(kind, threshold, old.correct, old.total,
                               SelectSeq(gt_pred_matches, LAMBDA sl : sl.has_field))
        /\ ~HasPresent(gt_pred_matches) =>
               (correct = old.correct /\ total = old.total)

C6_Witness ==
    /\ kind \in ThresholdKinds
    /\ Done
    /\ ~raised
    /\ Len(gt_pred_matches) = 2
    /\ ~gt_pred_matches[1].has_field
    /\ gt_pred_matches[2].has_field
    /\ total = old.total + 1
    /\ correct = old.correct + 1
    /\ old.total > 0

\* C7: a running-mean accumulator's update on a batch whose slots are all
\* skipped raises, and leaves the register as it was.
C7_AllSkippedRaises ==
    (kind \in MeanKinds /\ Done /\ ~HasPresent(gt_pred_matches)) =>
        (raised /\ Register = OldRegister)

\* C8: compute changes no state field, and a compute directly after a
\* compute returns the same value.
C8_ComputeIsPure ==
    [][(lastCall' = "compute") =>
          /\ <<correct', total', error', accuracy'>> = <<correct, total, error, accuracy>>
          /\ lastCall = "compute" => ret' = ret
      ]_vars

C8_Witness ==
    /\ lastCall = "compute"
    /\ nupd = 2
    /\ ret # <<>>
    /\ ~IsNaN(ret[1])
    /\ ret[1] # RatInt(0)

\* C9: the threshold test is strict: rotation and offset count score <
\* threshold, IoU counts score > threshold, and an instance whose score
\* equals the threshold adds 1 to total and nothing to correct.
C9_StrictPredicate ==
    (kind \in ThresholdKinds /\ Done) =>
        LET s == PresentScores(gt_pred_matches)
            below == {i \in 1..Len(s) : RatLess(s[i], threshold)}
            above == {i \in 1..Len(s) : RatLess(threshold, s[i])}
        IN /\ total = old.total + Len(s)
           /\ correct = old.correct +
                  (IF kind = "Iou3dAP" THEN Cardinality(above) ELSE Cardinality(below))
           /\ (\A i \in 1..Len(s) : s[i] = threshold) => correct = old.correct

C9_Witness ==
    /\ kind = "Iou3dAP"
    /\ Done
    /\ \E i \in 1..Len(PresentScores(gt_pred_matches)) :
           PresentScores(gt_pred_matches)[i] = threshold
    /\ total = old.total + 2
    /\ correct = old.correct + 1

ExampleBatch ==
    <<NoInstance, [has_field |-> TRUE, scores |-> <<<<3, 1>>, <<7, 1>>, <<9, 2>>>>]>>

\* C10: with total > 0 a threshold accumulator's compute is 100 * correct /
\* total, within [0, 100]; a fresh rotation accumulator of threshold 5 fed
\* one batch of a skipped slot and a slot of errors [3.0, 7.0, 4.5] has
\* correct = 2, total = 3 and computes 200/3.
C10_ComputePercentage ==
    /\ (kind \in ThresholdKinds /\ total > 0) =>
           /\ ComputeValue = RatNorm(100 * correct, total)
           /\ RatLeq(RatInt(0), ComputeValue)
           /\ RatLeq(ComputeValue, RatInt(100))
           /\ (lastCall = "compute" /\ ~raised) => ret = <<RatNorm(100 * correct, total)>>
    /\ (/\ kind = "DegreeErrorMeanAP"
        /\ threshold = RatInt(5)
        /\ Done
        /\ old.total = 0
        /\ old.correct = 0
        /\ gt_pred_matches = ExampleBatch) =>
           (correct = 2 /\ total = 3 /\ ComputeValue = <<200, 3>>)

C10_Witness ==
    /\ kind = "DegreeErrorMeanAP"
    /\ threshold = RatInt(5)
    /\ Done
    /\ old.total = 0
    /\ gt_pred_matches = ExampleBatch
    /\ ComputeValue = <<200, 3>>

\* C11: reset puts every state field back to its default 0, a reset right
\* after a reset changes nothing, and between calls the fields are those of
\* a new instance fed only the updates made since the last reset.
C11_ResetRestoresDefaults ==
    [][/\ (lastCall' = "reset") =>
              /\ Snapshot' = NoSnapshot
              /\ lastCall = "reset" => Snapshot' = Snapshot
       /\ (pc' = "idle") => Snapshot' = fresh'.fields
      ]_vars

C11_Witness ==
    /\ fresh.afterReset
    /\ pc = "idle"
    /\ lastCall = "update"
    /\ ~raised
    /\ nupd = 2
    /\ Snapshot # NoSnapshot

\* C12: a threshold accumulator with total = 0 computes NaN, and the call
\* raises nothing.
C12_ComputeOnEmptyIsNaN ==
    (kind \in ThresholdKinds /\ total = 0) =>
        /\ IsNaN(ComputeValue)
        /\ lastCall = "compute" => (~raised /\ ret = <<NaN>>)

C12_Witness ==
    /\ kind \in ThresholdKinds
    /\ lastCall = "compute"
    /\ nupd = 1
    /\ total = 0
    /\ ~raised
    /\ ret = <<NaN>>

AllReturned == \A c \in Callers : callers[c].pc = "done"
FedBy(c) == Fed(kind, threshold, callers[c].gt_pred_matches)
FedTotal == FedBy("caller1").total + FedBy("caller2").total
FedCorrect == FedBy("caller1").correct + FedBy("caller2").correct

\* C13: two update calls on one threshold accumulator never leave more than
\* the sum of the two batches' contributions in total and correct, and
\* leave exactly the sum when the calls are serialized; without
\* serialization an interleaving leaves less (the witness).
C13_SerializedCallsAdd ==
    AllReturned =>
        /\ total <= FedTotal
        /\ correct <= FedCorrect
        /\ serialized => (total = FedTotal /\ correct = FedCorrect)

C13_Witness ==
    /\ ~serialized
    /\ AllReturned
    /\ total < FedTotal
    /\ correct < FedCorrect
    /\ correct > 0

\* the first slot of b that cannot be scored, or 0
FirstUnscorable(b) ==
    IF \E i \in 1..Len(b) : "raises" \in DOMAIN b[i]
    THEN CHOOSE i \in 1..Len(b) :
             /\ "raises" \in DOMAIN b[i]
             /\ \A j \in 1..(i - 1) : "raises" \notin DOMAIN b[j]
    ELSE 0

PerSlotCommit ==
    LET k == FirstUnscorable(gt_pred_matches)
        before == Fed(kind, threshold, SubSeq(gt_pred_matches, 1, k - 1))
    IN /\ raised <=> (k > 0)
       /\ raised =>
              /\ class_id = k - 1
              /\ correct = old.correct + before.correct
              /\ total = old.total + before.total

\* C14: when the scorer raises on class slot k of a threshold accumulator's
\* update, the call ends raising, the counters hold the entry values plus
\* the contributions of the present slots before k and nothing of slot k or
\* the later slots, and they stay so when the exception reaches the caller.
C14_PerSlotCommit ==
    [][/\ (kind \in ThresholdKinds /\ pc' = "done") => PerSlotCommit'
       /\ (pc = "done") => (raised' = raised /\ Snapshot' = Snapshot)
      ]_vars

C14_Witness ==
    /\ kind \in ThresholdKinds
    /\ Done
    /\ raised
    /\ Len(gt_pred_matches) = 2
    /\ FirstUnscorable(gt_pred_matches) = 2
    /\ total > old.total
    /\ correct > old.correct
    /\ old.total > 0

====
